---- MODULE Spec2Model ----
(***************************************************************************)
(* Model of the Inventory_Tool Streamlit application (src/app.py) and its  *)
(* PostgreSQL persistence layer (src/db.py).                                *)
(*                                                                         *)
(* A Python str is a sequence of one-character strings.  A raw spreadsheet *)
(* cell is a record [k, s, n]: k = "null" (NaN/None), "str" (text s) or    *)
(* "num" (integer n).                                                      *)
(***************************************************************************)
EXTENDS Integers, Sequences, FiniteSets, TLC

VARIABLES
    norm_in,      \* norm: the string handed to norm
    norm_out,     \* norm: norm(norm_in) once computed
    norm_again,   \* norm: norm(norm_out) once computed
    norm_pc,      \* norm: "start" -> "normed" -> "done"
    uploaded,     \* import tab: the uploaded sheet as read by pd.read_excel, or NoFile
    map_choice,   \* import tab: the six "map_<canonical>" selectboxes (Unset = untouched)
    df_raw,       \* import tab: the sheet after normalize_columns
    auto_map,     \* import tab: infer_mapping's result
    mapping,      \* import tab: the effective column mapping
    import_status,\* import tab: "idle", "must_map", "KeyError" or "ok"
    df_std,       \* import tab: build_standard_df's result (display labels)
    df_new,       \* import tab: to_canonical's result (snake-case keys)
    datasets,     \* db: the datasets table, names in id order (id = position)
    records,      \* db: the records table, a set of rows
    next_record_id, \* db: next value of the records id sequence
    selected_id,  \* sidebar: the open server file
    notice,       \* the st.success / st.error / exception of the last handler
    df_can,       \* search tab: the open server file's rows, nulls filled
    term,         \* search tab: the text typed into the search box
    filtered,     \* search tab: apply_search's result
    search_pc     \* search tab: "idle", "typed" or "shown"

normVars == <<norm_in, norm_out, norm_again, norm_pc>>
importVars == <<uploaded, map_choice, df_raw, auto_map, mapping, import_status,
                df_std, df_new>>

dbVars == <<datasets, records, next_record_id, selected_id, notice>>
searchVars == <<df_can, term, filtered, search_pc>>

vars == <<norm_in, norm_out, norm_again, norm_pc,
          uploaded, map_choice, df_raw, auto_map, mapping, import_status,
          df_std, df_new,
          datasets, records, next_record_id, selected_id, notice,
          df_can, term, filtered, search_pc>>

\* ------------------------------------------------------------------ bounds
MaxLen == 4          \* longest string handed to norm
MaxCols == 2         \* most columns of an uploaded sheet (mapping inference)
MaxOverrides == 1    \* most selectboxes the user changes after an upload
MaxRows == 2         \* most rows of a sheet built from the small row pool
MaxRecordId == 3     \* most record ids the sequence hands out
MaxTermLen == 2      \* longest search term

\* ----------------------------------------------------------- Python str ops
Range(f) == {f[i] : i \in DOMAIN f}

SetMin(S) == CHOOSE x \in S : \A y \in S : x <= y
SetMax(S) == CHOOSE x \in S : \A y \in S : x >= y

\* the k-th smallest element of a set of numbers
Kth(S, k) == CHOOSE x \in S : Cardinality({y \in S : y < x}) = k - 1

\* the characters str.strip() removes (the ones the model's alphabets hold)
Whitespace == {" ", "\t", "\n"}

UpperCase == <<"A","B","C","D","E","F","G","H","I","J","K","L","M",
               "N","O","P","Q","R","S","T","U","V","W","X","Y","Z">>
LowerCase == <<"a","b","c","d","e","f","g","h","i","j","k","l","m",
               "n","o","p","q","r","s","t","u","v","w","x","y","z">>

LowerOf == [c \in Range(UpperCase) |->
               LowerCase[CHOOSE i \in 1..Len(UpperCase) : UpperCase[i] = c]]

lower_char(c) == IF c \in DOMAIN LowerOf THEN LowerOf[c] ELSE c

\* str.lower()
lower(s) == [i \in 1..Len(s) |-> lower_char(s[i])]

\* str.strip(chars): drop the leading and trailing characters that are in chars
strip_chars(s, chars) ==
    LET keep == {i \in 1..Len(s) : s[i] \notin chars}
    IN  IF keep = {} THEN <<>> ELSE SubSeq(s, SetMin(keep), SetMax(keep))

\* str.strip()
strip(s) == strip_chars(s, Whitespace)

\* str.replace(old, new) for one-character old and new
replace(s, old, new) == [i \in 1..Len(s) |-> IF s[i] = old THEN new ELSE s[i]]

\* a norm that trims blanks only, leaving a trailing newline to become a blank
norm_strip_blanks_only(s) ==
    replace(replace(lower(strip_chars(s, {" "})), "\n", " "), "\t", " ")

\* app.py norm
norm(s) == replace(replace(lower(strip(s)), "\n", " "), "\t", " ")

\* ------------------------------------------------------------ cells, tables
Null == [k |-> "null", s |-> <<>>, n |-> 0]          \* NaN / None
Str(s) == [k |-> "str", s |-> s, n |-> 0]            \* a text cell
Num(n) == [k |-> "num", s |-> <<>>, n |-> n]         \* a numeric cell

\* pd.isna
isna(v) == v.k = "null"

Digits == <<"0","1","2","3","4","5","6","7","8","9">>

RECURSIVE int_to_str(_)
int_to_str(n) ==
    IF n < 10 THEN <<Digits[n + 1]>>
    ELSE int_to_str(n \div 10) \o <<Digits[(n % 10) + 1]>>

\* str(v) of a scalar cell
py_str(v) ==
    CASE v.k = "str" -> v.s
      [] v.k = "num" -> int_to_str(v.n)
      [] v.k = "null" -> <<"n","a","n">>

\* a DataFrame: [columns |-> Seq(str), rows |-> Seq(Seq(cell))], one cell per column
DataFrame(columns, rows) == [columns |-> columns, rows |-> rows]

\* position of a column label (labels are unique in the modelled sheets)
ColIndex(df, name) == CHOOSE i \in 1..Len(df.columns) : df.columns[i] = name

\* df[name]: the column as a Series
Series(df, name) == [i \in 1..Len(df.rows) |-> df.rows[i][ColIndex(df, name)]]

\* a scalar broadcast over the frame's index by pd.DataFrame(out)
Broadcast(df, v) == [i \in 1..Len(df.rows) |-> v]

\* ------------------------------------------------------- app.py constants
ALIASES ==
    [supplier |-> <<
        <<"s","u","p","p","l","i","e","r">>,   \* supplier
        <<"s","u","p","p","l","i","e","r"," ","n","a","m","e">>,   \* supplier name
        <<"v","e","n","d","o","r">>,   \* vendor
        <<"v","e","n","d","o","r"," ","n","a","m","e">>,   \* vendor name
        <<"c","o","m","p","a","n","y">>,   \* company
        <<"c","o","m","p","a","n","y"," ","n","a","m","e">>,   \* company name
        <<"s","u","p","p","l","i","e","r","_","i","d">>,   \* supplier_id
        <<"s","u","p","p","l","i","e","r"," ","i","d">>,   \* supplier id
        <<"s","u","p","p","l","i","e","r","i","d">>   \* supplierid
     >>,
     product |-> <<
        <<"p","r","o","d","u","c","t">>,   \* product
        <<"p","r","o","d","u","c","t"," ","n","a","m","e">>,   \* product name
        <<"i","t","e","m">>,   \* item
        <<"i","t","e","m"," ","n","a","m","e">>,   \* item name
        <<"s","k","u">>,   \* sku
        <<"s","e","r","v","i","c","e">>   \* service
     >>,
     details |-> <<
        <<"d","e","t","a","i","l","s">>,   \* details
        <<"d","e","t","a","i","l">>,   \* detail
        <<"d","e","s","c","r","i","p","t","i","o","n">>,   \* description
        <<"n","o","t","e","s">>,   \* notes
        <<"p","r","o","d","u","c","t"," ","d","e","t","a","i","l","s">>   \* product details
     >>,
     website |-> <<
        <<"w","e","b","s","i","t","e">>,   \* website
        <<"u","r","l">>,   \* url
        <<"w","e","b">>,   \* web
        <<"l","i","n","k">>   \* link
     >>,
     phone |-> <<
        <<"p","h","o","n","e">>,   \* phone
        <<"t","e","l","e","p","h","o","n","e">>,   \* telephone
        <<"t","e","l">>,   \* tel
        <<"c","o","n","t","a","c","t"," ","n","u","m","b","e","r">>,   \* contact number
        <<"m","o","b","i","l","e">>   \* mobile
     >>,
     login_info |-> <<
        <<"l","o","g","i","n"," ","i","n","f","o">>,   \* login info
        <<"l","o","g","i","n">>,   \* login
        <<"l","o","g","i","n"," ","d","e","t","a","i","l","s">>,   \* login details
        <<"c","r","e","d","e","n","t","i","a","l","s">>,   \* credentials
        <<"a","c","c","o","u","n","t">>,   \* account
        <<"n","o","t","e","s"," ","(","l","o","g","i","n",")">>,   \* notes (login)
        <<"l","o","g","i","n","/","n","o","t","e","s">>   \* login/notes
     >>]

CANONICAL_ORDER == <<"supplier", "product", "details", "website", "phone", "login_info">>

Fields == Range(CANONICAL_ORDER)

DISPLAY_NAMES ==
    [supplier |-> "Supplier", product |-> "Product", details |-> "Details",
     website |-> "Website", phone |-> "Phone", login_info |-> "Login Info"]

StdCols == {DISPLAY_NAMES[c] : c \in Fields}

None == <<"<None>">>          \* Python None where a str is expected
Unset == <<"<unset>">>        \* a selectbox the user has not touched
NoFile == DataFrame(<<"<no file>">>, <<>>)

\* bool(v) of None or a str
truthy(v) == v # None /\ v # <<>>

\* app.py normalize_columns
normalize_columns(df) ==
    DataFrame([i \in 1..Len(df.columns) |-> norm(df.columns[i])], df.rows)

\* optn = norm(opt) for every option of every field (line 59)
NormedAliases ==
    [c \in Fields |-> [i \in 1..Len(ALIASES[c]) |-> norm(ALIASES[c][i])]]

\* the loop of infer_mapping over one field's normalized options, from option i on
RECURSIVE first_hit(_, _, _)
first_hit(optns, i, colset) ==
    IF i > Len(optns) THEN None
    ELSE IF optns[i] \in colset THEN optns[i]
    ELSE first_hit(optns, i + 1, colset)

\* the same loop without the break: the last matching option wins
infer_mapping_last_hit(columns) ==
    [c \in Fields |->
        LET hits == {i \in 1..Len(NormedAliases[c]) : NormedAliases[c][i] \in Range(columns)}
        IN  IF hits = {} THEN None ELSE NormedAliases[c][SetMax(hits)]]

\* app.py infer_mapping
infer_mapping(columns) ==
    [c \in Fields |-> first_hit(NormedAliases[c], 1, Range(columns))]

\* " | ".join(parts) and friends
RECURSIVE join(_, _)
join(parts, sep) ==
    IF parts = <<>> THEN <<>>
    ELSE IF Len(parts) = 1 THEN parts[1]
    ELSE parts[1] \o sep \o join(Tail(parts), sep)

\* row_details of build_details_from_remaining_columns: the parts list, from
\* remaining[i] on
RECURSIVE row_parts(_, _, _, _)
row_parts(df, remaining, row, i) ==
    IF i > Len(remaining) THEN <<>>
    ELSE LET c == remaining[i]
             v == row[ColIndex(df, c)]
             s == strip(py_str(v))
             rest == row_parts(df, remaining, row, i + 1)
         IN  IF isna(v) THEN rest
             ELSE IF s = <<>> \/ lower(s) = <<"n","a","n">> THEN rest
             ELSE <<c \o <<":", " ">> \o s>> \o rest

row_details(df, remaining, row) ==
    join(row_parts(df, remaining, row, 1), <<" ", "|", " ">>)

\* the same synthesis over every column, mapped or not
build_details_from_all_columns(df, used_cols) ==
    [i \in 1..Len(df.rows) |-> Str(row_details(df, df.columns, df.rows[i]))]

\* app.py build_details_from_remaining_columns
build_details_from_remaining_columns(df, used_cols) ==
    LET remaining == SelectSeq(df.columns, LAMBDA c : c \notin used_cols)
    IN  IF remaining = <<>> THEN Broadcast(df, Str(<<>>))
        ELSE [i \in 1..Len(df.rows) |-> Str(row_details(df, remaining, df.rows[i]))]

\* lines 104-106 of build_standard_df on one cell: null -> "", astype(str), strip
clean(v) == strip(py_str(IF isna(v) THEN Str(<<>>) ELSE v))

\* line 108 of build_standard_df
std_keep(r) == r["Supplier"] # <<>> /\ r["Product"] # <<>>

\* build_standard_df without its row filter
build_standard_df_unfiltered_rows(df, m) ==
    LET used_cols == {m[c] : c \in {c \in Fields : truthy(m[c])}}
        optional(c) == IF truthy(m[c]) THEN Series(df, m[c]) ELSE Broadcast(df, Str(<<>>))
        out == [Supplier |-> Series(df, m["supplier"]),
                Product |-> Series(df, m["product"]),
                Website |-> optional("website"),
                Phone |-> optional("phone"),
                Details |-> IF truthy(m["details"]) THEN Series(df, m["details"])
                            ELSE build_details_from_remaining_columns(df, used_cols)]
                @@ ("Login Info" :> optional("login_info"))
    IN  [i \in 1..Len(df.rows) |-> [c \in StdCols |-> clean(out[c][i])]]

build_standard_df_no_filter(df, m) ==
    IF m["supplier"] \notin Range(df.columns) \/ m["product"] \notin Range(df.columns)
    THEN [status |-> "KeyError", rows |-> <<>>]
    ELSE [status |-> "ok", rows |-> build_standard_df_unfiltered_rows(df, m)]

\* app.py build_standard_df: df[mapping["supplier"]] raises KeyError when the
\* label is no column; otherwise the cleaned, filtered, reindexed table
build_standard_df(df, m) ==
    IF m["supplier"] \notin Range(df.columns) \/ m["product"] \notin Range(df.columns)
    THEN [status |-> "KeyError", rows |-> <<>>]
    ELSE [status |-> "ok",
          rows |-> SelectSeq(build_standard_df_unfiltered_rows(df, m), std_keep)]

\* lines 123-125 of to_canonical
canon_keep(r) == r.supplier # <<>> /\ r.product # <<>>

\* a to_canonical that also drops the rows without details
to_canonical_drop_blank_details(std) ==
    SelectSeq([i \in 1..Len(std) |->
                  [supplier |-> strip(std[i]["Supplier"]),
                   product |-> strip(std[i]["Product"]),
                   details |-> std[i]["Details"],
                   website |-> std[i]["Website"],
                   phone |-> std[i]["Phone"],
                   login_info |-> std[i]["Login Info"]]],
              LAMBDA r : canon_keep(r) /\ r.details # <<>>)

\* app.py to_canonical (the cells of df_std are str already)
to_canonical(std) ==
    SelectSeq([i \in 1..Len(std) |->
                  [supplier |-> strip(std[i]["Supplier"]),
                   product |-> strip(std[i]["Product"]),
                   details |-> std[i]["Details"],
                   website |-> std[i]["Website"],
                   phone |-> std[i]["Phone"],
                   login_info |-> std[i]["Login Info"]]],
              canon_keep)

\* a gate that looks at supplier only
missing_required_supplier_only(m) == {k \in {"supplier"} : ~truthy(m[k])}

\* app.py line 279
missing_required(m) == {k \in {"supplier", "product"} : ~truthy(m[k])}

\* ------------------------------------------------ the import tab's script
NOT_MAPPED == <<"(","n","o","t"," ","m","a","p","p","e","d",")">>

\* app.py line 265
options(df) == <<NOT_MAPPED>> \o df.columns

\* st.selectbox(options, index=default_idx, key=...): the user's choice, or the
\* option at default_idx (lines 269-276)
selectbox(opts, default, choice) ==
    IF choice # Unset THEN choice
    ELSE IF default \in Range(opts) THEN default ELSE opts[1]

\* lines 264-277: the effective mapping
effective_mapping(df, auto, choices) ==
    [c \in Fields |->
        LET choice == selectbox(options(df), auto[c], choices[c])
        IN  IF choice = NOT_MAPPED THEN None ELSE choice]

NoMapping == [c \in Fields |-> None]
NoChoice == [c \in Fields |-> Unset]

\* lines 256-287: what one run of the script leaves for an uploaded sheet and
\* the selectboxes' state
RunImportTab(file, choices) ==
    /\ df_raw' = normalize_columns(file)
    /\ auto_map' = infer_mapping(df_raw'.columns)
    /\ mapping' = effective_mapping(df_raw', auto_map', choices)
    /\ IF missing_required(mapping') # {}
       THEN /\ import_status' = "must_map"
            /\ df_std' = <<>>
            /\ df_new' = <<>>
       ELSE LET built == build_standard_df(df_raw', mapping')
            IN  IF built.status # "ok"
                THEN /\ import_status' = built.status
                     /\ df_std' = <<>>
                     /\ df_new' = <<>>
                ELSE /\ import_status' = "ok"
                     /\ df_std' = built.rows
                     /\ df_new' = to_canonical(df_std')

DbIdle ==
    /\ datasets = <<>>
    /\ records = {}
    /\ next_record_id = 1
    /\ selected_id = 0
    /\ notice = ""
    /\ df_can = <<>>
    /\ term = <<>>
    /\ filtered = <<>>
    /\ search_pc = "idle"

ImportIdle ==
    /\ uploaded = NoFile
    /\ map_choice = NoChoice
    /\ df_raw = NoFile
    /\ auto_map = NoMapping
    /\ mapping = NoMapping
    /\ import_status = "idle"
    /\ df_std = <<>>
    /\ df_new = <<>>

\* ------------------------------------------------- norm as a pure function
NormAlphabet == {"a", "B", " ", "\t", "\n"}

Strings(alphabet, n) == UNION {[1..k -> alphabet] : k \in 0..n}

NotYet == <<"<not computed>">>

InitNorm ==
    /\ ImportIdle
    /\ DbIdle
    /\ norm_in \in Strings(NormAlphabet, MaxLen)
    /\ norm_out = NotYet
    /\ norm_again = NotYet
    /\ norm_pc = "start"

\* normalize_columns applies norm to a raw header
NormHeader ==
    /\ norm_pc = "start"
    /\ norm_out' = norm(norm_in)
    /\ norm_pc' = "normed"
    /\ UNCHANGED <<norm_in, norm_again>>
    /\ UNCHANGED importVars
    /\ UNCHANGED dbVars
    /\ UNCHANGED searchVars

\* infer_mapping / a second pass applies norm to an already normalized string
NormAgain ==
    /\ norm_pc = "normed"
    /\ norm_again' = norm(norm_out)
    /\ norm_pc' = "done"
    /\ UNCHANGED <<norm_in, norm_out>>
    /\ UNCHANGED importVars
    /\ UNCHANGED dbVars
    /\ UNCHANGED searchVars

NextNorm == NormHeader \/ NormAgain

SpecNorm == InitNorm /\ [][NextNorm]_vars

\* C7: header normalization is idempotent, and its result neither begins nor
\* ends with whitespace and holds no newline or tab.
C7_NormIdempotent ==
    /\ norm_pc = "done" => norm_again = norm_out
    /\ norm_pc # "start" =>
          /\ \A i \in 1..Len(norm_out) : norm_out[i] \notin {"\n", "\t"}
          /\ norm_out # <<>> =>
                /\ norm_out[1] \notin Whitespace
                /\ norm_out[Len(norm_out)] \notin Whitespace

\* a string with an inner newline and outer whitespace has been normalized twice
C7_Witness ==
    /\ norm_pc = "done"
    /\ Len(norm_in) = MaxLen
    /\ norm_in[1] \in Whitespace
    /\ norm_in[3] = "\n"
    /\ norm_out # norm_in
    /\ Len(norm_out) >= 2

NormIdle ==
    /\ norm_in = <<>>
    /\ norm_out = NotYet
    /\ norm_again = NotYet
    /\ norm_pc = "idle"

\* ------------------------------ column mapping: inference, override, gate
\* raw headers as a spreadsheet holds them
RawHeaderPool ==
    { <<" ","V","e","n","d","o","r">>,
      <<"S","u","p","p","l","i","e","r","\t","N","a","m","e">>,
      <<"I","t","e","m","\n">>,
      <<"W","e","b","s","i","t","e">>,
      <<"E","x","t","r","a">> }

\* column lists of at most n headers, no two alike after normalization
HeaderLists(n) ==
    {cols \in UNION {[1..k -> RawHeaderPool] : k \in 0..n} :
        \A i, j \in 1..Len(cols) : i # j => norm(cols[i]) # norm(cols[j])}

\* a sheet with one row, every cell the text "x"
MappingSheets ==
    {DataFrame(cols, << [i \in 1..Len(cols) |-> Str(<<"x">>)] >>) : cols \in HeaderLists(MaxCols)}

InitMapping ==
    /\ NormIdle
    /\ DbIdle
    /\ uploaded \in MappingSheets
    /\ map_choice = NoChoice
    /\ df_raw = NoFile
    /\ auto_map = NoMapping
    /\ mapping = NoMapping
    /\ import_status = "idle"
    /\ df_std = <<>>
    /\ df_new = <<>>

\* the script's first run after the upload
ShowImportTab ==
    /\ import_status = "idle"
    /\ uploaded # NoFile
    /\ RunImportTab(uploaded, map_choice)
    /\ UNCHANGED <<uploaded, map_choice>>
    /\ UNCHANGED normVars
    /\ UNCHANGED dbVars
    /\ UNCHANGED searchVars

\* the user picks another option in one selectbox; the script runs again
SelectMapping ==
    /\ import_status # "idle"
    /\ \E c \in Fields :
         \E choice \in Range(options(df_raw)) :
            /\ choice # selectbox(options(df_raw), auto_map[c], map_choice[c])
            /\ Cardinality({f \in Fields : map_choice[f] # Unset} \cup {c}) <= MaxOverrides
            /\ map_choice' = [map_choice EXCEPT ![c] = choice]
            /\ RunImportTab(uploaded, map_choice')
    /\ UNCHANGED uploaded
    /\ UNCHANGED normVars
    /\ UNCHANGED dbVars
    /\ UNCHANGED searchVars

NextMapping == ShowImportTab \/ SelectMapping

SpecMapping == InitMapping /\ [][NextMapping]_vars

\* --------------------------- standardization as a pure function of
\* (normalized sheet, mapping)
StdColumns ==
    << <<"v","e","n","d","o","r">>, <<"i","t","e","m">>,
       <<"n","o","t","e","s"," ","x">>, <<"e","x","t","r","a">> >>

CellPool ==
    { Null, Str(<<>>), Str(<<" ">>), Str(<<" ","a"," ">>), Str(<<"n","a","n">>),
      Str(<<" ","N","a","N">>), Num(7) }

SmallRowPool ==
    { << Str(<<" ","a"," ">>), Str(<<"b">>), Str(<<"x">>), Null >>,
      << Null, Str(<<"b">>), Str(<<"x">>), Str(<<"y">>) >>,
      << Str(<<"c">>), Str(<<" ">>), Null, Null >>,
      << Num(7), Str(<<"d">>), Str(<<" ","N","a","N">>), Str(<<" ","y","\n">>) >>,
      << Str(<<"n","a","n">>), Num(42), Null, Str(<<" ">>) >> }

StdSheets ==
    {DataFrame(StdColumns, <<r>>) : r \in [1..Len(StdColumns) -> CellPool]}
    \cup {DataFrame(StdColumns, rows) : rows \in UNION {[1..k -> SmallRowPool] : k \in 0..MaxRows}}

\* mappings the selectboxes can produce for StdColumns
StdMappings ==
    LET auto == infer_mapping(StdColumns)
    IN  { auto,
          [auto EXCEPT !["details"] = StdColumns[3]],
          [auto EXCEPT !["website"] = StdColumns[4], !["phone"] = StdColumns[3]],
          [auto EXCEPT !["product"] = StdColumns[1], !["login_info"] = StdColumns[4]],
          [auto EXCEPT !["supplier"] = None],
          [auto EXCEPT !["product"] = None, !["details"] = StdColumns[2]] }

InitStandard ==
    /\ NormIdle
    /\ DbIdle
    /\ uploaded = NoFile
    /\ map_choice = NoChoice
    /\ df_raw \in StdSheets
    /\ auto_map = NoMapping
    /\ mapping \in StdMappings
    /\ import_status = "idle"
    /\ df_std = <<>>
    /\ df_new = <<>>

\* lines 279-283: the gate, then build_standard_df
Standardize ==
    /\ import_status = "idle"
    /\ IF missing_required(mapping) # {}
       THEN /\ import_status' = "must_map"
            /\ df_std' = <<>>
       ELSE LET built == build_standard_df(df_raw, mapping)
            IN  /\ import_status' = IF built.status = "ok" THEN "built" ELSE built.status
                /\ df_std' = built.rows
    /\ UNCHANGED <<uploaded, map_choice, df_raw, auto_map, mapping, df_new>>
    /\ UNCHANGED normVars
    /\ UNCHANGED dbVars
    /\ UNCHANGED searchVars

\* line 287
Canonicalize ==
    /\ import_status = "built"
    /\ df_new' = to_canonical(df_std)
    /\ import_status' = "ok"
    /\ UNCHANGED <<uploaded, map_choice, df_raw, auto_map, mapping, df_std>>
    /\ UNCHANGED normVars
    /\ UNCHANGED dbVars
    /\ UNCHANGED searchVars

NextStandard == Standardize \/ Canonicalize

SpecStandard == InitStandard /\ [][NextStandard]_vars

\* ------------------------------------------------------------------ db.py
SqlNull == <<"<NULL>">>       \* SQL NULL in a TEXT column

CANON_COLS == <<"supplier", "product", "details", "website", "phone", "login_info">>

\* db.py get_or_create_dataset_id: the id returned and the datasets table after it
get_or_create_dataset_id(table, name) ==
    IF name \in Range(table)
    THEN [id |-> CHOOSE i \in 1..Len(table) : table[i] = name, datasets |-> table]
    ELSE [id |-> Len(table) + 1, datasets |-> Append(table, name)]

\* db.py load_dataset: the dataset's rows, ORDER BY id
load_dataset(table, dataset_id) ==
    LET rows == {r \in table : r.dataset_id = dataset_id}
        ids == {r.id : r \in rows}
    IN  [k \in 1..Cardinality(rows) |-> CHOOSE r \in rows : r.id = Kth(ids, k)]

\* db.py line 88
db_keep(r) == r.supplier # <<>> /\ r.product # <<>>

\* db.py lines 79-88 (the frame's cells are str already)
db_prepare(df) ==
    SelectSeq([i \in 1..Len(df) |->
                  [supplier |-> strip(df[i].supplier),
                   product |-> strip(df[i].product),
                   details |-> df[i].details,
                   website |-> df[i].website,
                   phone |-> df[i].phone,
                   login_info |-> df[i].login_info]],
              db_keep)

\* csv.writer's doubling of the quote character
RECURSIVE double_quotes(_)
double_quotes(s) ==
    IF s = <<>> THEN <<>>
    ELSE IF Head(s) = "\"" THEN <<"\"", "\"">> \o double_quotes(Tail(s))
    ELSE <<Head(s)>> \o double_quotes(Tail(s))

\* csv.writer, QUOTE_MINIMAL: one field
csv_field(s) ==
    IF \E i \in 1..Len(s) : s[i] \in {",", "\"", "\n", "\r"}
    THEN <<"\"">> \o double_quotes(s) \o <<"\"">>
    ELSE s

\* writer.writerow((dataset_id, *row)) (lines 102-103), without the line end
csv_writerow(dataset_id, r) ==
    join(<<int_to_str(dataset_id)>> \o [k \in 1..Len(CANON_COLS) |-> csv_field(r[CANON_COLS[k]])],
         <<",">>)

\* COPY ... WITH (FORMAT CSV): a field that is empty and unquoted is NULL
copy_value(text, quoted) == IF ~quoted /\ text = <<>> THEN SqlNull ELSE text

\* COPY ... WITH (FORMAT CSV): the fields of one line, scanning from position i
RECURSIVE copy_fields(_, _, _, _, _, _)
copy_fields(line, i, cur, quoted, in_quotes, done) ==
    IF i > Len(line) THEN Append(done, copy_value(cur, quoted))
    ELSE IF in_quotes
    THEN IF line[i] = "\""
         THEN IF i < Len(line) /\ line[i + 1] = "\""
              THEN copy_fields(line, i + 2, Append(cur, "\""), quoted, TRUE, done)
              ELSE copy_fields(line, i + 1, cur, quoted, FALSE, done)
         ELSE copy_fields(line, i + 1, Append(cur, line[i]), quoted, TRUE, done)
    ELSE IF line[i] = "\"" THEN copy_fields(line, i + 1, cur, TRUE, TRUE, done)
    ELSE IF line[i] = ","
         THEN copy_fields(line, i + 1, <<>>, FALSE, FALSE, Append(done, copy_value(cur, quoted)))
    ELSE copy_fields(line, i + 1, Append(cur, line[i]), quoted, FALSE, done)

\* integer input of the dataset_id column
RECURSIVE str_to_int(_)
str_to_int(s) ==
    IF s = <<>> THEN 0
    ELSE 10 * str_to_int(SubSeq(s, 1, Len(s) - 1))
         + ((CHOOSE d \in 1..10 : Digits[d] = s[Len(s)]) - 1)

\* the row COPY stores for one CSV line, under the next id of the sequence
copy_row(line, id) ==
    LET f == copy_fields(line, 1, <<>>, FALSE, FALSE, <<>>)
    IN  [id |-> id, dataset_id |-> str_to_int(f[1]), supplier |-> f[2], product |-> f[3],
         details |-> f[4], website |-> f[5], phone |-> f[6], login_info |-> f[7]]

\* a replace that deletes every record, whatever its dataset
replace_dataset_with_df_delete_all(table, next_id, dataset_id, df) ==
    LET rows == db_prepare(df)
    IN  [records |-> {copy_row(csv_writerow(dataset_id, rows[i]), next_id + i - 1) :
                          i \in 1..Len(rows)},
         next_record_id |-> next_id + Len(rows)]

\* db.py replace_dataset_with_df, committed: the records table and the id
\* sequence after it
replace_dataset_with_df(table, next_id, dataset_id, df) ==
    LET rows == db_prepare(df)
        kept == {r \in table : r.dataset_id # dataset_id}
    IN  [records |-> kept \cup {copy_row(csv_writerow(dataset_id, rows[i]), next_id + i - 1) :
                                   i \in 1..Len(rows)},
         next_record_id |-> next_id + Len(rows)]

\* db.py add_record
add_record(table, next_id, dataset_id, supplier, product, details, website, phone, login_info) ==
    table \cup {[id |-> next_id, dataset_id |-> dataset_id, supplier |-> supplier,
                 product |-> product, details |-> details, website |-> website,
                 phone |-> phone, login_info |-> login_info]}

\* db.py delete_records
delete_records(table, dataset_id, record_ids) ==
    IF record_ids = {} THEN table
    ELSE {r \in table : ~(r.dataset_id = dataset_id /\ r.id \in record_ids)}

\* ---------------------------------------------------------------- the app
DEFAULT_DATASET_NAME == <<"M","a","i","n">>

\* what the user types into a name box
NameInputs ==
    { <<"M","a","i","n">>, <<" ","B"," ">>, <<" ">> }

\* what the user types into the add form
AddForms ==
    { [supplier |-> <<" ","s"," ">>, product |-> <<"p">>, details |-> <<>>,
       website |-> <<"w"," ">>, phone |-> <<>>, login_info |-> <<>>],
      [supplier |-> <<"s">>, product |-> <<" ">>, details |-> <<"d">>,
       website |-> <<>>, phone |-> <<>>, login_info |-> <<>>] }

\* the sheets the user uploads, as pd.read_excel returns them
AppFiles ==
    { DataFrame(<< <<"V","e","n","d","o","r">>, <<"I","t","e","m">>, <<"P","h","o","n","e">> >>,
                << << Str(<<"a">>), Str(<<"b">>), Null >>,
                   << Str(<<"c">>), Str(<<" ">>), Str(<<"5">>) >> >>),
      DataFrame(<< <<"S","u","p","p","l","i","e","r">>, <<"P","r","o","d","u","c","t">>,
                   <<"E","x","t","r","a">> >>,
                << << Str(<<"d">>), Str(<<"e">>), Str(<<"x",",","\"","y">>) >> >>),
      DataFrame(<< <<"I","t","e","m">> >>, << << Str(<<"b">>) >> >>) }

\* lines 147-151: the first run of the script creates the default server file
InitApp ==
    /\ NormIdle
    /\ ImportIdle
    /\ datasets = get_or_create_dataset_id(<<>>, DEFAULT_DATASET_NAME).datasets
    /\ records = {}
    /\ next_record_id = 1
    /\ selected_id = get_or_create_dataset_id(<<>>, DEFAULT_DATASET_NAME).id
    /\ notice = ""
    /\ df_can = <<>>
    /\ term = <<>>
    /\ filtered = <<>>
    /\ search_pc = "idle"

\* sidebar selectbox "Open server file"
SelectServerFile ==
    /\ \E id \in 1..Len(datasets) :
          /\ id # selected_id
          /\ selected_id' = id
    /\ notice' = ""
    /\ UNCHANGED <<datasets, records, next_record_id>>
    /\ UNCHANGED importVars
    /\ UNCHANGED normVars
    /\ UNCHANGED searchVars

\* sidebar button "Create" (lines 168-174)
SidebarCreate ==
    /\ \E new_ds_name \in NameInputs :
          IF strip(new_ds_name) = <<>>
          THEN /\ notice' = "Enter a name."
               /\ UNCHANGED datasets
          ELSE /\ datasets' = get_or_create_dataset_id(datasets, strip(new_ds_name)).datasets
               /\ notice' = "Created."
    /\ UNCHANGED <<records, next_record_id, selected_id>>
    /\ UNCHANGED importVars
    /\ UNCHANGED normVars
    /\ UNCHANGED searchVars

\* form button "Save" (lines 216-231)
SaveRecord ==
    /\ \E form \in AddForms :
          IF strip(form.supplier) = <<>> \/ strip(form.product) = <<>>
          THEN /\ notice' = "Supplier and Product are required."
               /\ UNCHANGED <<records, next_record_id>>
          ELSE /\ next_record_id <= MaxRecordId
               /\ records' = add_record(records, next_record_id, selected_id,
                                        strip(form.supplier), strip(form.product),
                                        strip(form.details), strip(form.website),
                                        strip(form.phone), strip(form.login_info))
               /\ next_record_id' = next_record_id + 1
               /\ notice' = "Saved."
    /\ UNCHANGED <<datasets, selected_id>>
    /\ UNCHANGED importVars
    /\ UNCHANGED normVars
    /\ UNCHANGED searchVars

\* button "Delete selected" (lines 235-249)
DeleteSelected ==
    /\ load_dataset(records, selected_id) # <<>>
    /\ \E to_delete \in SUBSET {r.id : r \in Range(load_dataset(records, selected_id))} :
         \E confirm_del \in BOOLEAN :
            IF to_delete = {}
            THEN /\ notice' = "Select at least one Record ID."
                 /\ UNCHANGED records
            ELSE IF ~confirm_del
            THEN /\ notice' = "Tick the confirmation checkbox first."
                 /\ UNCHANGED records
            ELSE /\ records' = delete_records(records, selected_id, to_delete)
                 /\ notice' = "Deleted."
    /\ UNCHANGED <<datasets, next_record_id, selected_id>>
    /\ UNCHANGED importVars
    /\ UNCHANGED normVars
    /\ UNCHANGED searchVars

\* the file uploader gets a sheet; the script runs the import tab (lines 255-287)
UploadFile ==
    /\ \E file \in AppFiles :
          /\ file # uploaded
          /\ uploaded' = file
          /\ RunImportTab(file, map_choice)
    /\ notice' = ""
    /\ UNCHANGED map_choice
    /\ UNCHANGED <<datasets, records, next_record_id, selected_id>>
    /\ UNCHANGED normVars
    /\ UNCHANGED searchVars

\* mode "Overwrite currently open server file", button "Apply overwrite"
\* (lines 296-305); db_fails: the transaction of replace_dataset_with_df raises
\* and is rolled back
ApplyOverwrite ==
    /\ import_status = "ok"
    /\ \E confirm \in BOOLEAN, db_fails \in BOOLEAN :
          IF ~confirm
          THEN /\ ~db_fails
               /\ notice' = "Tick the confirmation checkbox first."
               /\ UNCHANGED <<records, next_record_id>>
          ELSE IF db_fails
          THEN /\ notice' = "OperationalError"
               /\ UNCHANGED <<records, next_record_id>>
          ELSE LET after == replace_dataset_with_df(records, next_record_id, selected_id, df_new)
               IN  /\ after.next_record_id - 1 <= MaxRecordId
                   /\ records' = after.records
                   /\ next_record_id' = after.next_record_id
                   /\ notice' = "Overwritten."
    /\ UNCHANGED <<datasets, selected_id>>
    /\ UNCHANGED importVars
    /\ UNCHANGED normVars
    /\ UNCHANGED searchVars

\* mode "Save as a NEW server file", button "Create new server file from this
\* Excel" (lines 306-315)
CreateNewServerFile ==
    /\ import_status = "ok"
    /\ \E new_name \in NameInputs, db_fails \in BOOLEAN :
          IF strip(new_name) = <<>>
          THEN /\ ~db_fails
               /\ notice' = "Enter a name."
               /\ UNCHANGED <<datasets, records, next_record_id>>
          ELSE LET got == get_or_create_dataset_id(datasets, strip(new_name))
                   after == replace_dataset_with_df(records, next_record_id, got.id, df_new)
               IN  /\ datasets' = got.datasets
                   /\ IF db_fails
                      THEN /\ notice' = "OperationalError"
                           /\ UNCHANGED <<records, next_record_id>>
                      ELSE /\ after.next_record_id - 1 <= MaxRecordId
                           /\ records' = after.records
                           /\ next_record_id' = after.next_record_id
                           /\ notice' = "Created new server file."
    /\ UNCHANGED selected_id
    /\ UNCHANGED importVars
    /\ UNCHANGED normVars
    /\ UNCHANGED searchVars

NextApp ==
    \/ SelectServerFile
    \/ SidebarCreate
    \/ SaveRecord
    \/ DeleteSelected
    \/ UploadFile
    \/ ApplyOverwrite
    \/ CreateNewServerFile

SpecApp == InitApp /\ [][NextApp]_vars

\* ------------------------------------------------------------- search tab
\* re.search(pattern, text) for a pattern of literal characters and ".", which
\* stands for any character but a newline
regex_search(pattern, text) ==
    \E start \in 1..(Len(text) + 1) :
        /\ start + Len(pattern) - 1 <= Len(text)
        /\ \A j \in 1..Len(pattern) :
              \/ pattern[j] = "." /\ text[start + j - 1] # "\n"
              \/ pattern[j] # "." /\ pattern[j] = text[start + j - 1]

\* Series.str.contains(term, na=False), regex=True by default, on one value
str_contains(value, pattern) == regex_search(pattern, value)

\* app.py apply_search
apply_search(df, t) ==
    LET needle == lower(strip(t))
    IN  IF needle = <<>> THEN df
        ELSE SelectSeq(df, LAMBDA r : \E c \in Fields :
                                          str_contains(lower(r[c]), needle))

SearchAlphabet == {"a", "B", ".", " "}

SearchRows ==
    { [supplier |-> <<"A","b">>, product |-> <<"b","a">>, details |-> <<>>,
       website |-> <<"a",".","b">>, phone |-> <<>>, login_info |-> <<>>],
      [supplier |-> <<"b","b">>, product |-> <<"c">>, details |-> <<"a"," ","b">>,
       website |-> <<>>, phone |-> <<>>, login_info |-> <<>>],
      [supplier |-> <<"c">>, product |-> <<"d">>, details |-> <<>>,
       website |-> <<>>, phone |-> <<>>, login_info |-> <<"B","a">>],
      [supplier |-> <<"c","c">>, product |-> <<"d">>, details |-> <<>>,
       website |-> <<>>, phone |-> <<"1">>, login_info |-> <<>>] }

InitSearch ==
    /\ NormIdle
    /\ ImportIdle
    /\ datasets = <<>>
    /\ records = {}
    /\ next_record_id = 1
    /\ selected_id = 0
    /\ notice = ""
    /\ df_can \in UNION {[1..k -> SearchRows] : k \in 0..MaxRows}
    /\ term = <<>>
    /\ filtered = df_can
    /\ search_pc = "idle"

\* the user types into "Search products, suppliers, or keywords:"; the script
\* runs apply_search (lines 188-189)
TypeSearchTerm ==
    /\ search_pc = "idle"
    /\ \E t \in Strings(SearchAlphabet, MaxTermLen) :
          /\ term' = t
          /\ filtered' = apply_search(df_can, t)
    /\ search_pc' = "shown"
    /\ UNCHANGED df_can
    /\ UNCHANGED importVars
    /\ UNCHANGED normVars
    /\ UNCHANGED dbVars

NextSearch == TypeSearchTerm

SpecSearch == InitSearch /\ [][NextSearch]_vars

\* ------------------------------------------------------------- the claims
\* C4: infer_mapping resolves each canonical field on its own: the field maps to
\* the first alias of its own list that is in the header set (exact equality),
\* whatever the column order, and to None exactly when no alias of it is there;
\* with "website" the only optional alias present, website is mapped and phone
\* and login_info are not.
C4_AliasPriority ==
    import_status # "idle" =>
        LET colset == Range(df_raw.columns)
        IN  /\ \A c \in Fields :
                LET present == {i \in 1..Len(ALIASES[c]) : ALIASES[c][i] \in colset}
                IN  /\ (auto_map[c] = None) <=> (present = {})
                    /\ present # {} => auto_map[c] = ALIASES[c][SetMin(present)]
            /\ (\A c \in {"website", "phone", "login_info"} :
                   colset \cap Range(ALIASES[c]) =
                       IF c = "website" THEN {<<"w","e","b","s","i","t","e">>} ELSE {})
               => /\ auto_map["website"] = <<"w","e","b","s","i","t","e">>
                  /\ auto_map["phone"] = None
                  /\ auto_map["login_info"] = None

\* "vendor" comes before "supplier name" in the sheet, and the earlier alias of
\* the list, "supplier name", is the one inferred
C4_Witness ==
    /\ import_status # "idle"
    /\ Len(df_raw.columns) = 2
    /\ df_raw.columns[1] = <<"v","e","n","d","o","r">>
    /\ df_raw.columns[2] = ALIASES["supplier"][2]
    /\ auto_map["supplier"] = ALIASES["supplier"][2]
    /\ auto_map["product"] = None

\* C2: when the effective mapping leaves supplier or product unmapped, the import
\* stops at the "You must map Supplier and Product." gate: build_standard_df is
\* not run and no standardized or canonical table is produced.
C2_RequiredGate ==
    (import_status # "idle" /\ (mapping["supplier"] = None \/ mapping["product"] = None))
        => /\ import_status = "must_map"
           /\ df_std = <<>>
           /\ df_new = <<>>

\* the sheet has a product column, inferred, and the user set Product to
\* "(not mapped)"
C2_Witness ==
    /\ import_status = "must_map"
    /\ auto_map["supplier"] # None
    /\ auto_map["product"] # None
    /\ map_choice["product"] = NOT_MAPPED
    /\ mapping["product"] = None
    /\ Len(uploaded.rows) = 1

\* a raw cell after null-to-empty conversion and str()
CellText(v) == IF isna(v) THEN <<>> ELSE py_str(v)

NonBlank(s) == \E j \in 1..Len(s) : s[j] \notin Whitespace

\* the raw cell of row i in the column canonical field c is mapped to
SourceCell(i, c) == df_raw.rows[i][ColIndex(df_raw, mapping[c])]

\* the input rows whose mapped supplier and product are both non-empty
Survivors ==
    {i \in 1..Len(df_raw.rows) :
        /\ NonBlank(CellText(SourceCell(i, "supplier")))
        /\ NonBlank(CellText(SourceCell(i, "product")))}

Standardized == import_status \in {"built", "ok"}

\* C1: the table build_standard_df returns holds exactly the input rows whose
\* mapped supplier and product are non-empty after null-to-empty conversion and
\* trimming: no output record has an empty supplier or product, there are as
\* many records as such rows, and they come in input order.
C1_RowSurvival ==
    Standardized =>
        /\ Len(df_std) = Cardinality(Survivors)
        /\ \A k \in 1..Len(df_std) :
              /\ df_std[k]["Supplier"] # <<>>
              /\ df_std[k]["Product"] # <<>>
              /\ k <= Cardinality(Survivors) =>
                    /\ df_std[k]["Supplier"] =
                          strip(CellText(SourceCell(Kth(Survivors, k), "supplier")))
                    /\ df_std[k]["Product"] =
                          strip(CellText(SourceCell(Kth(Survivors, k), "product")))

\* a two-row sheet whose first row is dropped for its null supplier
C1_Witness ==
    /\ Standardized
    /\ Len(df_raw.rows) = 2
    /\ isna(SourceCell(1, "supplier"))
    /\ Len(df_std) = 1
    /\ df_std[1]["Supplier"] = <<"7">>

\* C3: every field of every output record is a trimmed string; a null cell or a
\* cell holding the text "nan" becomes "" in the field its column is mapped to,
\* and an unmapped website, phone or login_info is "".
C3_CellsNormalized ==
    (Standardized /\ Len(df_std) = Cardinality(Survivors)) =>
        \A k \in 1..Len(df_std) :
            LET i == Kth(Survivors, k)
            IN  /\ \A col \in StdCols : df_std[k][col] = strip(df_std[k][col])
                /\ \A c \in Fields :
                      (/\ truthy(mapping[c])
                       /\ \/ isna(SourceCell(i, c))
                          \/ SourceCell(i, c) = Str(<<"n","a","n">>))
                      => df_std[k][DISPLAY_NAMES[c]] = <<>>
                /\ \A c \in {"website", "phone", "login_info"} :
                      ~truthy(mapping[c]) => df_std[k][DISPLAY_NAMES[c]] = <<>>

\* columns no canonical field is mapped to, by position
RemainingIdx ==
    {j \in 1..Len(df_raw.columns) :
        df_raw.columns[j] \notin {mapping[c] : c \in {c \in Fields : truthy(mapping[c])}}}

UsableUnlessLiteralNan(v) ==
    /\ ~isna(v)
    /\ NonBlank(py_str(v))
    /\ strip(py_str(v)) # <<"n","a","n">>

UsableUnlessNanAnyCase(v) ==
    /\ ~isna(v)
    /\ NonBlank(py_str(v))
    /\ lower(strip(py_str(v))) # <<"n","a","n">>

\* the details text the claim describes for input row i
ExpectedDetails(i, Usable(_)) ==
    LET idx == {j \in RemainingIdx : Usable(df_raw.rows[i][j])}
        frags == [n \in 1..Cardinality(idx) |->
                     df_raw.columns[Kth(idx, n)] \o <<":", " ">>
                         \o strip(py_str(df_raw.rows[i][Kth(idx, n)]))]
    IN  join(frags, <<" ", "|", " ">>)

DetailsAsClaimed(Usable(_)) ==
    (Standardized /\ Len(df_std) = Cardinality(Survivors)) =>
        \A k \in 1..Len(df_std) :
            LET i == Kth(Survivors, k)
            IN  IF truthy(mapping["details"])
                THEN df_std[k]["Details"] = strip(CellText(SourceCell(i, "details")))
                ELSE df_std[k]["Details"] = ExpectedDetails(i, Usable)

\* C5 as stated: a remaining column contributes "<column>: <value>" unless its
\* value is missing, blank or the literal "nan"; fragments are joined with " | ";
\* a mapped details column is read as is.
C5_DetailsLiteralNan == DetailsAsClaimed(UsableUnlessLiteralNan)

\* C5 as amended: the same, a value being left out when it is "nan" in any
\* letter case ("NaN", "NAN", ...), not only the lower-case literal.
C5_DetailsSynthesis == DetailsAsClaimed(UsableUnlessNanAnyCase)

\* details is unmapped and a surviving row has two usable remaining values
C5_Witness ==
    /\ Standardized
    /\ mapping["details"] = None
    /\ Len(df_std) = 1
    /\ df_std[1]["Details"] =
          <<"n","o","t","e","s"," ","x",":"," ","a"," ","|"," ","e","x","t","r","a",":"," ","7">>

\* C6: re-applying the supplier/product filter to an already filtered table
\* changes nothing: to_canonical keeps every record of build_standard_df's
\* output, in order, with the same six values under snake-case keys, and the
\* filter of replace_dataset_with_df then drops no row of it.
C6_RefilterNoOp ==
    import_status = "ok" =>
        /\ Len(df_new) = Len(df_std)
        /\ \A i \in 1..Len(df_new) : i <= Len(df_std) =>
              \A c \in Fields : df_new[i][c] = df_std[i][DISPLAY_NAMES[c]]
        /\ db_prepare(df_new) = df_new

\* two input rows, one dropped by build_standard_df; the survivor, with blank
\* details, is still there after to_canonical
C6_Witness ==
    /\ import_status = "ok"
    /\ Len(df_raw.rows) = 2
    /\ Len(df_std) = 1
    /\ Len(df_new) = 1
    /\ df_new[1].details = <<>>
    /\ df_new[1].supplier = <<"c">>

\* the six fields of a stored row
SixFields(r) ==
    [supplier |-> r.supplier, product |-> r.product, details |-> r.details,
     website |-> r.website, phone |-> r.phone, login_info |-> r.login_info]

\* app.py line 184 on one stored value: fillna("")
fillna(v) == IF v = SqlNull THEN <<>> ELSE v

\* load_dataset's rows without id, as stored
LoadedRows(table, dataset_id) ==
    LET got == load_dataset(table, dataset_id)
    IN  [k \in 1..Len(got) |-> SixFields(got[k])]

\* load_dataset's rows without id, nulls read as ""
LoadedRowsFilled(table, dataset_id) ==
    LET got == load_dataset(table, dataset_id)
    IN  [k \in 1..Len(got) |-> [c \in Fields |-> fillna(got[k][c])]]

\* the rows of df with non-empty trimmed supplier and product
WantedRows(df) == SelectSeq(df, LAMBDA r : NonBlank(r.supplier) /\ NonBlank(r.product))

ReplaceCommitted == notice' \in {"Overwritten.", "Created new server file."}

\* what the claim says of one step, Loaded being how load_dataset's result is read
BulkReplaceStep(Loaded(_, _)) ==
    /\ ReplaceCommitted =>
          \E X \in 1..Len(datasets') :
              /\ notice' = "Overwritten." => X = selected_id
              /\ Loaded(records', X) = WantedRows(df_new)
              /\ \A Y \in 1..Len(datasets') : Y # X =>
                    load_dataset(records', Y) = load_dataset(records, Y)
    /\ notice' = "OperationalError" => records' = records

C10_NewFileKeepsExisting ==
    [][notice' = "Created new server file." => \A r \in records : r \in records']_vars

\* the needle occurs in the text as it stands
IsSubstring(needle, text) ==
    \E start \in 1..(Len(text) + 1) :
        /\ start + Len(needle) - 1 <= Len(text)
        /\ \A j \in 1..Len(needle) : needle[j] = text[start + j - 1]

\* C8: apply_search returns exactly the rows in which the trimmed, lower-cased
\* term is a literal substring of the lower-cased value of one of the six
\* fields, in order; an empty term returns the table unchanged.
C8_LiteralSubstring ==
    search_pc = "shown" =>
        filtered = SelectSeq(df_can, LAMBDA r : \E c \in Fields :
                                 IsSubstring(lower(strip(term)), lower(r[c])))

====
